---- MODULE Spec2Model ----
(***************************************************************************)
(* Model of app.py, the "Data Insights Toolkit" Streamlit script.          *)
(*                                                                         *)
(* The script is re-executed from the top on every user interaction (one   *)
(* "pass").  A pass walks the uploaded batch in order; for each file it    *)
(* reads the file into df, renders the cleaning / projection / chart /     *)
(* report / conversion sections and reacts to the one button click, if    *)
(* any, that triggered the pass.                                           *)
(*                                                                         *)
(* Strings the code computes on (file names, extensions) are sequences of  *)
(* one-character strings; tables are records of typed columns and rows.    *)
(***************************************************************************)
EXTENDS Integers, Sequences, FiniteSets, TLC

VARIABLES
    uploaded_files,   \* the batch returned by st.file_uploader
    session,          \* widget id -> value kept by the framework between passes
    clicked,          \* the button whose click the running pass reacts to
    pc,               \* position of the script inside the pass
    i,                \* index of `file` in `for file in uploaded_files`
    df,               \* the local table of the current loop iteration
    ids,              \* widget ids registered so far in this pass
    out,              \* elements rendered in this pass, in order
    fs,               \* names of the files on disk (transient reports)
    prev,             \* the Deduplicate the previous pass applied, if any
    cur,              \* cleaning operation applied in this pass
    arg,              \* input of a library routine exercised on its own
    res               \* result of that routine

vars == <<uploaded_files, session, clicked, pc, i, df, ids, out, fs, prev, cur, arg, res>>

appVars == <<uploaded_files, session, clicked, pc, i, df, ids, out, fs, prev, cur>>

(***************************************************************************)
(* Bounds                                                                  *)
(***************************************************************************)
MaxFiles == 2
MaxRows == 3
MaxVal == 2

(***************************************************************************)
(* Generic helpers                                                         *)
(***************************************************************************)
Range(s) == {s[k] : k \in 1..Len(s)}

RECURSIVE SumSeq(_)
SumSeq(s) ==
    IF s = <<>> THEN 0 ELSE Head(s) + SumSeq(Tail(s))

RECURSIVE Flatten(_)
Flatten(ss) ==
    IF ss = <<>> THEN <<>> ELSE Head(ss) \o Flatten(Tail(ss))

Abs(x) == IF x < 0 THEN -x ELSE x

RECURSIVE Gcd(_, _)
Gcd(a, b) ==
    IF b = 0 THEN a ELSE Gcd(b, a % b)

SeqsUpTo(S, n) == UNION {[1..k -> S] : k \in 0..n}

(***************************************************************************)
(* str: lower(), replace(), os.path.splitext                               *)
(***************************************************************************)
UpperCase == <<"A","B","C","D","E","F","G","H","I","J","K","L","M",
               "N","O","P","Q","R","S","T","U","V","W","X","Y","Z">>
LowerCase == <<"a","b","c","d","e","f","g","h","i","j","k","l","m",
               "n","o","p","q","r","s","t","u","v","w","x","y","z">>

lower_char(c) ==
    IF c \in Range(UpperCase)
    THEN LowerCase[CHOOSE k \in 1..Len(UpperCase) : UpperCase[k] = c]
    ELSE c

\* str.lower()
lower(s) == [k \in 1..Len(s) |-> lower_char(s[k])]

\* str.rfind(ch): the last index of ch, 0 when there is none
rfind(s, ch) ==
    IF \E k \in 1..Len(s) : s[k] = ch
    THEN CHOOSE k \in 1..Len(s) : s[k] = ch /\ \A m \in (k+1)..Len(s) : s[m] # ch
    ELSE 0

\* os.path.splitext(p)[-1]: the text from the last dot of the last path
\* component on; empty when there is no dot or only leading dots precede it
splitext_ext(p) ==
    LET sepIndex == rfind(p, "/")
        dotIndex == rfind(p, ".")
    IN  IF dotIndex > sepIndex
           /\ \E k \in (sepIndex+1)..(dotIndex-1) : p[k] # "."
        THEN SubSeq(p, dotIndex, Len(p))
        ELSE <<>>

startswith_at(s, old, k) ==
    /\ k + Len(old) - 1 <= Len(s)
    /\ SubSeq(s, k, k + Len(old) - 1) = old

RECURSIVE replace_from(_, _, _, _)
replace_from(s, old, new, k) ==
    IF k > Len(s) THEN <<>>
    ELSE IF startswith_at(s, old, k)
         THEN new \o replace_from(s, old, new, k + Len(old))
         ELSE <<s[k]>> \o replace_from(s, old, new, k + 1)

\* str.replace(old, new): every non-overlapping occurrence, left to right
replace(s, old, new) ==
    IF old = <<>>
    THEN Flatten([k \in 1..Len(s) |-> new \o <<s[k]>>]) \o new
    ELSE replace_from(s, old, new, 1)

dot_csv == <<".", "c", "s", "v">>
dot_xlsx == <<".", "x", "l", "s", "x">>


(***************************************************************************)
(* File Conversion: output name and MIME type                              *)
(***************************************************************************)
mime_csv == "text/csv"
mime_xlsx == "application/vnd.openxmlformats-officedocument.spreadsheetml.sheet"

\* file.name.replace(file_ext, ".csv") / file.name.replace(file_ext, ".xlsx")
converted_file_name(name, file_ext, conversion_type) ==
    IF conversion_type = "CSV"
    THEN replace(name, file_ext, dot_csv)
    ELSE replace(name, file_ext, dot_xlsx)

converted_mime_type(conversion_type) ==
    IF conversion_type = "CSV" THEN mime_csv ELSE mime_xlsx

\* file_ext = os.path.splitext(file.name)[-1].lower()
file_ext_of(name) == lower(splitext_ext(name))

(***************************************************************************)
(* Tables (pandas DataFrame): typed columns and positionally aligned rows  *)
(*   cell  [k, n, d]:  "num" the rational n/d,  "nan" a missing value,     *)
(*                     "str" the text number n,                            *)
(*                     "root" the real sign(n) * sqrt(|n| / d)             *)
(***************************************************************************)
NaN == [k |-> "nan", n |-> 0, d |-> 1]
Str(t) == [k |-> "str", n |-> t, d |-> 1]

Frac(n, d) ==
    LET g == Gcd(Abs(n), Abs(d))
        sg == IF d < 0 THEN -1 ELSE 1
    IN  [k |-> "num", n |-> (sg * n) \div g, d |-> (sg * d) \div g]

Num(n) == Frac(n, 1)

Root(n, d) ==
    LET g == Gcd(Abs(n), Abs(d))
    IN  IF n = 0 THEN Num(0) ELSE [k |-> "root", n |-> n \div g, d |-> d \div g]

FAdd(a, b) == Frac(a.n * b.d + b.n * a.d, a.d * b.d)
FSub(a, b) == Frac(a.n * b.d - b.n * a.d, a.d * b.d)
FMul(a, b) == Frac(a.n * b.n, a.d * b.d)
FDiv(a, b) == Frac(a.n * b.d, a.d * b.n)
FLeq(a, b) == a.n * b.d <= b.n * a.d

RECURSIVE FSum(_)
FSum(s) ==
    IF s = <<>> THEN Num(0) ELSE FAdd(Head(s), FSum(Tail(s)))

isnull(c) == c.k = "nan"

Column(t, c) == [r \in 1..Len(t.rows) |-> t.rows[r][c]]

notnull_values(t, c) == SelectSeq(Column(t, c), LAMBDA v : ~isnull(v))

\* df.select_dtypes(include=["number"]).columns, as column positions
numeric_positions(t) == {c \in 1..Len(t.columns) : t.columns[c].dtype = "number"}

\* df.select_dtypes(include=["number"]).columns
numeric_cols(t) ==
    LET num == SelectSeq(t.columns, LAMBDA col : col.dtype = "number")
    IN  [c \in 1..Len(num) |-> num[c].name]

\* df[numeric_cols].isnull().sum().sum()
isnull_sum(t) ==
    SumSeq([r \in 1..Len(t.rows) |->
              Cardinality({c \in numeric_positions(t) : isnull(t.rows[r][c])})])

\* DataFrame.mean() of one column: over the non-missing values, NaN if none
mean(t, c) ==
    LET vals == notnull_values(t, c)
    IN  IF vals = <<>> THEN NaN ELSE FDiv(FSum(vals), Num(Len(vals)))

\* a fill that puts 0 where the column has no mean (an entirely missing
\* column); C8 does not hold of it
fillna_mean_or_zero(t) ==
    [t EXCEPT !.rows =
        [r \in 1..Len(t.rows) |->
            [c \in 1..Len(t.columns) |->
                IF c \in numeric_positions(t) /\ isnull(t.rows[r][c])
                THEN IF isnull(mean(t, c)) THEN Num(0) ELSE mean(t, c)
                ELSE t.rows[r][c]]]]

\* df[numeric_cols] = df[numeric_cols].fillna(df[numeric_cols].mean())
fillna_mean(t) ==
    [t EXCEPT !.rows =
        [r \in 1..Len(t.rows) |->
            [c \in 1..Len(t.columns) |->
                IF c \in numeric_positions(t) /\ isnull(t.rows[r][c])
                THEN mean(t, c)
                ELSE t.rows[r][c]]]]

RECURSIVE keep_first(_, _)
keep_first(rows, seen) ==
    IF rows = <<>> THEN <<>>
    ELSE IF Head(rows) \in seen
         THEN keep_first(Tail(rows), seen)
         ELSE <<Head(rows)>> \o keep_first(Tail(rows), seen \cup {Head(rows)})

\* keep="last" instead of the default keep="first"; C7 does not hold of it
drop_duplicates_keep_last(t) ==
    LET reversed(rows) == [k \in 1..Len(rows) |-> rows[Len(rows) + 1 - k]]
    IN  [t EXCEPT !.rows = reversed(keep_first(reversed(t.rows), {}))]

\* df.drop_duplicates(inplace=True): keep="first", all columns, NaN equal to NaN
drop_duplicates(t) == [t EXCEPT !.rows = keep_first(t.rows, {})]

\* "Eliminate Duplicate Rows": the table and duplicates_removed
Deduplicate(t) ==
    LET initial_rows == Len(t.rows)
        after == drop_duplicates(t)
        final_rows == Len(after.rows)
    IN  [df |-> after, n |-> initial_rows - final_rows]

\* "Impute Missing Values": the table and filled_values
Impute(t) ==
    LET missing_before == isnull_sum(t)
        after == fillna_mean(t)
        missing_after == isnull_sum(after)
    IN  [df |-> after, n |-> missing_before - missing_after]


(***************************************************************************)
(* Inputs of the library-routine specifications                            *)
(***************************************************************************)
NumVals == {NaN} \cup {Num(v) : v \in 1..MaxVal}
FewVals == {NaN, Num(1)}
TextVals == {NaN, Str(1)}

col_x == [name |-> "x", dtype |-> "number"]
col_y == [name |-> "y", dtype |-> "number"]
col_s == [name |-> "s", dtype |-> "object"]

\* what read_csv / read_excel infer: a column without rows, or holding text,
\* is "object"; a column of numbers and missing values is "number"
AsLoaded(t) ==
    [t EXCEPT !.columns =
        [c \in 1..Len(t.columns) |->
            [name |-> t.columns[c].name,
             dtype |-> IF \E r \in 1..Len(t.rows) : t.rows[r][c].k = "str"
                          \/ t.rows = <<>>
                       THEN "object" ELSE "number"]]]

TablesOf(columns, RowSet) ==
    {AsLoaded([columns |-> columns, rows |-> rows]) : rows \in SeqsUpTo(RowSet, MaxRows)}

Tables ==
    TablesOf(<<col_x>>, {<<v>> : v \in NumVals})
    \cup TablesOf(<<col_x, col_s>>, {<<v, w>> : v \in NumVals, w \in TextVals})
    \cup TablesOf(<<col_x, col_y>>, {<<v, w>> : v \in NumVals, w \in FewVals})

StemPieces == {<<"a">>, <<"b", ".">>, dot_csv, <<".", "X", "L", "S", "X">>}
Extensions == {dot_csv, dot_xlsx, <<".", "C", "S", "V">>, <<".", "X", "l", "s", "x">>}
MaxPieces == 2

\* names the Loader accepts: a stem of pieces and a supported extension
UploadNames ==
    {Flatten(ps) \o e : ps \in SeqsUpTo(StemPieces, MaxPieces) \ {<<>>}, e \in Extensions}

NoWidget == [type |-> "none", label |-> "", name |-> <<>>]
NoTable == [columns |-> <<>>, rows |-> <<>>]
NoOp == [op |-> "none", f |-> 0, how |-> "", df |-> NoTable]
EmptySession == [w \in {} |-> <<>>]

AppAtRest ==
    /\ uploaded_files = <<>>
    /\ session = EmptySession
    /\ clicked = NoWidget
    /\ pc = "idle"
    /\ i = 0
    /\ df = NoTable
    /\ ids = {}
    /\ out = <<>>
    /\ fs = {}
    /\ prev = NoOp
    /\ cur = NoOp

(***************************************************************************)
(* The uploaded batch                                                      *)
(***************************************************************************)
TableA ==
    [columns |-> <<col_x>>,
     rows |-> << <<Num(1)>>, <<NaN>>, <<Num(1)>>, <<Num(3)>> >>]

TableB ==
    [columns |-> <<col_s>>,
     rows |-> << <<Str(1)>> >>]

FilePool ==
    { [name |-> <<"a", ".", "c", "s", "v">>, ok |-> TRUE, table |-> TableA],
      [name |-> <<"B", ".", "X", "L", "S", "X">>, ok |-> TRUE, table |-> TableB],
      [name |-> <<"n", ".", "t", "x", "t">>, ok |-> TRUE, table |-> NoTable],
      [name |-> <<"c", ".", "c", "s", "v">>, ok |-> FALSE, table |-> NoTable] }

Batches ==
    {b \in SeqsUpTo(FilePool, MaxFiles) :
        Len(b) >= 1 /\ \A m, n \in 1..Len(b) : m # n => b[m] # b[n]}

(***************************************************************************)
(* Widgets.  A widget's identity is what the script passes to the call:    *)
(* its key when it has one, else its label.  `name` is the file name       *)
(* interpolated into that text, <<>> when the text does not mention it.    *)
(***************************************************************************)
Widget(type, label, name) == [type |-> type, label |-> label, name |-> name]

checkbox_id(name) == Widget("checkbox", "Enable Data Cleaning for {file.name}", name)
dedup_button_id(name) == Widget("button", "Eliminate Duplicate Rows", <<>>)
impute_button_id(name) == Widget("button", "Impute Missing Values", <<>>)
scale_button_id(name) == Widget("button", "Scale Numeric Data", <<>>)
scaler_id(name) == Widget("selectbox", "scaler_{file.name}", name)
columns_id(name) == Widget("multiselect", "Select columns for {file.name}", name)
viz_type_id(name) == Widget("selectbox", "viz_type_{file.name}", name)
bar_x_id(name) == Widget("selectbox", "bar_x_{file.name}", name)
bar_y_id(name) == Widget("selectbox", "bar_y_{file.name}", name)
scatter_x_id(name) == Widget("selectbox", "scatter_x_{file.name}", name)
scatter_y_id(name) == Widget("selectbox", "scatter_y_{file.name}", name)
line_x_id(name) == Widget("selectbox", "line_x_{file.name}", name)
line_y_id(name) == Widget("selectbox", "line_y_{file.name}", name)
hist_x_id(name) == Widget("selectbox", "hist_x_{file.name}", name)
report_button_id(name) == Widget("button", "Generate EDA Report", <<>>)
conversion_id(name) == Widget("radio", "{file.name}", name)
convert_button_id(name) == Widget("button", "Convert and Download", <<>>)
download_id(file_name) == Widget("download_button", "Download {file_name}", file_name)

\* every control the script renders for the file called `name`
controls(name) ==
    <<checkbox_id(name), dedup_button_id(name), impute_button_id(name),
      scale_button_id(name), scaler_id(name), columns_id(name), viz_type_id(name),
      bar_x_id(name), bar_y_id(name), scatter_x_id(name), scatter_y_id(name),
      line_x_id(name), line_y_id(name), hist_x_id(name), report_button_id(name),
      conversion_id(name), convert_button_id(name)>>

Elem(f, e, s, v) == [f |-> f, e |-> e, s |-> s, v |-> v]

WidgetElem(f, id, options, value) ==
    Elem(f, "widget", id.type, [id |-> id, options |-> options, value |-> value])

\* st.button: TRUE only in the pass its click triggered
button(id) == clicked = id

\* st.checkbox: the stored value, FALSE by default
checkbox(id) == id \in DOMAIN session /\ session[id] = <<"True">>

\* st.selectbox / st.radio: the stored choice if it is an option, else the
\* first option, None when there is no option
selectbox(id, options) ==
    IF id \in DOMAIN session /\ session[id][1] \in Range(options)
    THEN session[id][1]
    ELSE IF options = <<>> THEN "None" ELSE options[1]

\* st.multiselect: the stored selection if made of options, else the default
multiselect(id, options, default) ==
    IF id \in DOMAIN session /\ Range(session[id]) \subseteq Range(options)
    THEN session[id]
    ELSE default

(***************************************************************************)
(* A script section is a run of steps over                                 *)
(*   st = [df, ids, out, cur, fs, raised, skip]                            *)
(* raised: an exception is propagating; skip: `continue` was executed.     *)
(***************************************************************************)
Start ==
    [df |-> df, ids |-> ids, out |-> <<>>, cur |-> cur, fs |-> fs,
     raised |-> FALSE, skip |-> FALSE]

\* registering a widget whose identity is already on the page raises
\* DuplicateWidgetID
register(st, f, id, options, value) ==
    IF st.raised THEN st
    ELSE IF id \in st.ids
         THEN [st EXCEPT !.raised = TRUE,
                         !.out = @ \o <<Elem(f, "exception", "DuplicateWidgetID", id)>>]
         ELSE [st EXCEPT !.ids = @ \cup {id},
                         !.out = @ \o <<WidgetElem(f, id, options, value)>>]

emit(st, elem) ==
    IF st.raised THEN st ELSE [st EXCEPT !.out = @ \o <<elem>>]

\* except Exception as e: st.error(...)
catch(st, f, message) ==
    IF st.raised
    THEN [st EXCEPT !.raised = FALSE,
                    !.out = SubSeq(@, 1, Len(@) - 1) \o <<Elem(f, "error", message, <<>>)>>]
    ELSE st

(***************************************************************************)
(* Read File, File Details, Data Preview                                   *)
(***************************************************************************)
head(t) == [t EXCEPT !.rows = SubSeq(@, 1, IF Len(@) < 5 THEN Len(@) ELSE 5)]

\* the error branch without its `continue`: the script would fall through to
\* the sections below; C1 does not hold of it
load_failed_without_continue(st, f, message, file_ext) ==
    emit(st, Elem(f, "error", message, file_ext))

\* st.error(...); continue
load_failed(st, f, message, file_ext) ==
    [emit(st, Elem(f, "error", message, file_ext)) EXCEPT !.skip = TRUE]

read_file(st, f, file) ==
    LET file_ext == file_ext_of(file.name)
    IN  IF file_ext \in {dot_csv, dot_xlsx}
        THEN IF file.ok
             THEN [st EXCEPT
                     !.df = file.table,
                     !.out = @ \o <<Elem(f, "details", "File Name",
                                         <<Len(file.table.rows), Len(file.table.columns)>>),
                                    Elem(f, "dataframe", "Data Preview", head(file.table))>>]
             ELSE load_failed(st, f, "Error loading file", file_ext)
        ELSE load_failed(st, f, "Unsupported file type", file_ext)

(***************************************************************************)
(* Data Cleaning                                                           *)
(***************************************************************************)
FMin(vals) == CHOOSE v \in Range(vals) : \A w \in Range(vals) : FLeq(v, w)
FMax(vals) == CHOOSE v \in Range(vals) : \A w \in Range(vals) : FLeq(w, v)

\* MinMaxScaler().fit_transform on one value: (x - min) / (max - min), the
\* divisor taken as 1 when the column is constant; missing values stay missing
minmax_value(vals, x) ==
    IF isnull(x) THEN NaN
    ELSE LET lo == FMin(vals)
             data_range == FSub(FMax(vals), lo)
         IN  IF data_range.n = 0 THEN FSub(x, lo) ELSE FDiv(FSub(x, lo), data_range)

\* StandardScaler().fit_transform on one value: (x - mean) / std, the divisor
\* taken as 1 when the column is constant; missing values stay missing
standard_value(vals, x) ==
    IF isnull(x) THEN NaN
    ELSE LET mu == FDiv(FSum(vals), Num(Len(vals)))
             dev == [k \in 1..Len(vals) |-> FMul(FSub(vals[k], mu), FSub(vals[k], mu))]
             var == FDiv(FSum(dev), Num(Len(vals)))
             delta == FSub(x, mu)
             sq == FDiv(FMul(delta, delta), var)
         IN  IF var.n = 0 THEN delta
             ELSE Root((IF delta.n < 0 THEN -1 ELSE 1) * sq.n, sq.d)

\* df[numeric_cols] = scaler.fit_transform(df[numeric_cols])
fit_transform(scaler_type, t) ==
    [t EXCEPT !.rows =
        [r \in 1..Len(t.rows) |->
            [c \in 1..Len(t.columns) |->
                IF c \in numeric_positions(t)
                THEN IF scaler_type = "MinMaxScaler"
                     THEN minmax_value(notnull_values(t, c), t.rows[r][c])
                     ELSE standard_value(notnull_values(t, c), t.rows[r][c])
                ELSE t.rows[r][c]]]]

ScalerOptions == <<"MinMaxScaler", "StandardScaler">>

Applied(op, f, how, t) == [op |-> op, f |-> f, how |-> how, df |-> t]

eliminate_duplicates(st, f, name) ==
    LET s1 == register(st, f, dedup_button_id(name), <<>>, <<>>)
        after == Deduplicate(s1.df)
    IN  IF s1.raised \/ ~button(dedup_button_id(name)) THEN s1
        ELSE emit([s1 EXCEPT !.df = after.df,
                             !.cur = Applied("dedup", f, "", after.df)],
                  Elem(f, "success", "duplicate rows successfully removed", after.n))

impute_missing(st, f, name) ==
    LET s1 == register(st, f, impute_button_id(name), <<>>, <<>>)
        after == Impute(s1.df)
    IN  IF s1.raised \/ ~button(impute_button_id(name)) THEN s1
        ELSE emit([s1 EXCEPT !.df = after.df,
                             !.cur = Applied("impute", f, "", after.df)],
                  Elem(f, "success", "Successfully imputed missing values with the mean",
                       after.n))

scale_numeric(st, f, name, fit_raises) ==
    LET s1 == register(st, f, scale_button_id(name), <<>>, <<>>)
        scaler_type == selectbox(scaler_id(name), ScalerOptions)
        s2 == register(s1, f, scaler_id(name), ScalerOptions, <<scaler_type>>)
        after == fit_transform(scaler_type, s2.df)
    IN  IF s1.raised \/ ~button(scale_button_id(name)) THEN s1
        ELSE IF s2.raised THEN s2
        ELSE IF numeric_cols(s2.df) = <<>>
             THEN emit(s2, Elem(f, "warning", "No numeric columns to scale", <<>>))
        ELSE IF fit_raises
             THEN emit(s2, Elem(f, "error", "Error during scaling", <<>>))
        ELSE emit([s2 EXCEPT !.df = after,
                             !.cur = Applied("scale", f, scaler_type, after)],
                  Elem(f, "success", "Successfully scaled numeric columns using", scaler_type))

data_cleaning(st, f, name, fit_raises) ==
    LET enabled == checkbox(checkbox_id(name))
        s1 == register(st, f, checkbox_id(name), <<>>,
                       IF enabled THEN <<"True">> ELSE <<"False">>)
        s2 == eliminate_duplicates(s1, f, name)
        s3 == impute_missing(s2, f, name)
        s4 == scale_numeric(s3, f, name, fit_raises)
    IN  IF enabled THEN s4 ELSE s1

(***************************************************************************)
(* Column Selection                                                        *)
(***************************************************************************)
column_names(t) == [c \in 1..Len(t.columns) |-> t.columns[c].name]

position_of(t, name) == CHOOSE c \in 1..Len(t.columns) : t.columns[c].name = name

\* df = df[columns]
project(t, columns) ==
    [columns |-> [c \in 1..Len(columns) |-> t.columns[position_of(t, columns[c])]],
     rows |-> [r \in 1..Len(t.rows) |->
                 [c \in 1..Len(columns) |-> t.rows[r][position_of(t, columns[c])]]]]

column_selection(st, f, name) ==
    LET columns == multiselect(columns_id(name), column_names(st.df), column_names(st.df))
        s1 == register(st, f, columns_id(name), column_names(st.df), columns)
    IN  IF s1.raised THEN s1
        ELSE [s1 EXCEPT !.df = project(st.df, columns)]

(***************************************************************************)
(* Data Visualization                                                      *)
(***************************************************************************)
ChartKinds == <<"Bar Chart", "Scatter Plot", "Line Chart", "Histogram">>

\* the early check without "Line Chart"; C9 does not hold of it
needs_two_numeric_scatter_only(visualization_type) ==
    visualization_type = "Scatter Plot"

\* visualization_type in ["Scatter Plot", "Line Chart"]
needs_two_numeric(visualization_type) ==
    visualization_type \in {"Scatter Plot", "Line Chart"}

\* the two axis selectors and the figure of a Bar, Scatter or Line chart
xy_chart(st, f, kind, x_id, y_id, px_raises) ==
    LET options == numeric_cols(st.df)
        x_axis == selectbox(x_id, options)
        y_axis == selectbox(y_id, options)
        s1 == register(st, f, x_id, options, <<x_axis>>)
        s2 == register(s1, f, y_id, options, <<y_axis>>)
    IN  IF s2.raised THEN s2
        ELSE IF px_raises
             THEN emit(s2, Elem(f, "error", "Could not create chart", <<>>))
             ELSE emit(s2, Elem(f, "chart", kind, [x |-> x_axis, y |-> y_axis, df |-> s2.df]))

histogram(st, f, x_id, px_raises) ==
    LET options == numeric_cols(st.df)
        x_axis == selectbox(x_id, options)
        s1 == register(st, f, x_id, options, <<x_axis>>)
    IN  IF s1.raised THEN s1
        ELSE IF px_raises
             THEN emit(s1, Elem(f, "error", "Could not create chart", <<>>))
             ELSE emit(s1, Elem(f, "chart", "Histogram",
                                [x |-> x_axis, y |-> x_axis, df |-> s1.df]))

\* the body of the try block
draw(st, f, name, visualization_type, px_raises) ==
    LET n == Len(numeric_cols(st.df))
    IN  IF n < 2 /\ needs_two_numeric(visualization_type)
        THEN emit(st, Elem(f, "warning",
                           "Scatter Plot and Line Chart require at least two numeric columns",
                           <<>>))
        ELSE IF visualization_type = "Bar Chart"
        THEN IF n >= 2
             THEN xy_chart(st, f, "Bar Chart", bar_x_id(name), bar_y_id(name), px_raises)
             ELSE emit(st, Elem(f, "warning",
                                "Bar Chart requires at least two numeric columns", <<>>))
        ELSE IF visualization_type = "Scatter Plot"
        THEN xy_chart(st, f, "Scatter Plot", scatter_x_id(name), scatter_y_id(name), px_raises)
        ELSE IF visualization_type = "Line Chart"
        THEN xy_chart(st, f, "Line Chart", line_x_id(name), line_y_id(name), px_raises)
        ELSE IF n = 0
             THEN emit(st, Elem(f, "warning",
                                "Histogram requires at least one numeric column", <<>>))
             ELSE histogram(st, f, hist_x_id(name), px_raises)

data_visualization(st, f, name, px_raises) ==
    LET visualization_type == selectbox(viz_type_id(name), ChartKinds)
        s1 == register(st, f, viz_type_id(name), ChartKinds, <<visualization_type>>)
    IN  IF s1.raised THEN s1
        ELSE catch(draw(s1, f, name, visualization_type, px_raises), f,
                   "Could not create chart")

(***************************************************************************)
(* EDA Report                                                              *)
(***************************************************************************)
report_suffix == <<"_", "r", "e", "p", "o", "r", "t", ".", "h", "t", "m", "l">>

\* f"{file.name}_report.html"
report_path(name) == name \o report_suffix

\* where the try block may raise: sv.analyze, show_html (before anything is
\* written), open/read, components.html, os.remove; "none" when nothing does
ReportFailures == {"none", "analyze", "show_html", "open", "html", "remove"}

\* the files on disk after the try/except of Generate EDA Report
report_files(files, path, fail_at) ==
    IF fail_at \in {"analyze", "show_html"} THEN files
    ELSE IF fail_at \in {"open", "html", "remove"} THEN files \cup {path}
    ELSE files \ {path}

generate_report(st, f, name, fail_at) ==
    LET written == [st EXCEPT !.fs = report_files(st.fs, report_path(name), fail_at)]
        embedded == emit(written, Elem(f, "html", "EDA report", st.df))
    IN  IF fail_at = "none" THEN embedded
        ELSE IF fail_at = "remove"
             THEN emit(embedded, Elem(f, "error", "Error generating EDA report", fail_at))
             ELSE emit(written, Elem(f, "error", "Error generating EDA report", fail_at))

eda_report(st, f, name, fail_at) ==
    LET s1 == register(st, f, report_button_id(name), <<>>, <<>>)
    IN  IF s1.raised \/ ~button(report_button_id(name)) THEN s1
        ELSE generate_report(s1, f, name, fail_at)

(***************************************************************************)
(* File Conversion                                                         *)
(***************************************************************************)
ConversionOptions == <<"CSV", "Excel">>

convert_and_download(st, f, name, file_ext, conversion_type, to_raises) ==
    LET file_name == converted_file_name(name, file_ext, conversion_type)
        mime_type == converted_mime_type(conversion_type)
        s1 == IF download_id(file_name) \in st.ids
              THEN register(st, f, download_id(file_name), <<>>, <<>>)
              ELSE [st EXCEPT
                      !.ids = @ \cup {download_id(file_name)},
                      !.out = @ \o <<Elem(f, "widget", "download_button",
                                          [id |-> download_id(file_name),
                                           value |-> <<>>,
                                           file_name |-> file_name,
                                           mime |-> mime_type,
                                           format |-> conversion_type,
                                           data |-> st.df])>>]
    IN  IF to_raises
        THEN emit(st, Elem(f, "error", "Error during file conversion", <<>>))
        ELSE catch(s1, f, "Error during file conversion")

file_conversion(st, f, name, to_raises) ==
    LET file_ext == file_ext_of(name)
        conversion_type == selectbox(conversion_id(name), ConversionOptions)
        s1 == register(st, f, conversion_id(name), ConversionOptions, <<conversion_type>>)
        s2 == register(s1, f, convert_button_id(name), <<>>, <<>>)
    IN  IF s2.raised \/ ~button(convert_button_id(name)) THEN s2
        ELSE convert_and_download(s2, f, name, file_ext, conversion_type, to_raises)

(***************************************************************************)
(* The script: the loop over the batch, its end, and the next interaction  *)
(***************************************************************************)
\* the widget state the framework keeps after a pass: that of the widgets the
\* pass rendered, where it differs from what the widget shows by default
default_value(w) ==
    IF w.s = "checkbox" THEN <<"False">>
    ELSE IF w.s = "multiselect" THEN w.v.options
    ELSE IF w.v.options = <<>> THEN <<>>
    ELSE <<w.v.options[1]>>

Cull(rendered) ==
    LET kept == {w \in DOMAIN session :
                    \E k \in 1..Len(rendered) :
                        /\ rendered[k].e = "widget"
                        /\ rendered[k].v.id = w
                        /\ rendered[k].v.value = session[w]
                        /\ rendered[k].v.value # default_value(rendered[k])}
    IN  [w \in kept |-> session[w]]

\* the library call of a section can raise only in the pass its button triggered
MayRaise(id) == IF clicked = id THEN BOOLEAN ELSE {FALSE}

\* the script goes from one section to the next; `continue` and the end of the
\* loop body start the next iteration; an exception nothing catches ends the pass
Section(st, next) ==
    /\ df' = st.df
    /\ ids' = st.ids
    /\ out' = out \o st.out
    /\ cur' = st.cur
    /\ fs' = st.fs
    /\ IF st.raised
       THEN /\ pc' = "idle"
            /\ session' = Cull(out \o st.out)
            /\ clicked' = NoWidget
            /\ UNCHANGED i
       ELSE IF st.skip \/ next = "next file"
       THEN /\ i' = i + 1
            /\ pc' = IF i + 1 > Len(uploaded_files) THEN "end" ELSE "read"
            /\ UNCHANGED <<session, clicked>>
       ELSE /\ pc' = next
            /\ UNCHANGED <<session, clicked, i>>
    /\ UNCHANGED <<uploaded_files, prev, arg, res>>

ReadFile ==
    /\ pc = "read"
    /\ Section(read_file(Start, i, uploaded_files[i]), "clean")

DataCleaning ==
    /\ pc = "clean"
    /\ \E fit_raises \in MayRaise(scale_button_id(<<>>)) :
          Section(data_cleaning(Start, i, uploaded_files[i].name, fit_raises), "columns")

ColumnSelection ==
    /\ pc = "columns"
    /\ Section(column_selection(Start, i, uploaded_files[i].name), "viz")

DataVisualization ==
    /\ pc = "viz"
    /\ \E px_raises \in BOOLEAN :
          Section(data_visualization(Start, i, uploaded_files[i].name, px_raises), "report")

EDAReport ==
    /\ pc = "report"
    /\ \E fail_at \in (IF clicked = report_button_id(<<>>) THEN ReportFailures ELSE {"none"}) :
          Section(eda_report(Start, i, uploaded_files[i].name, fail_at), "convert")

FileConversion ==
    /\ pc = "convert"
    /\ \E to_raises \in MayRaise(convert_button_id(<<>>)) :
          Section(file_conversion(Start, i, uploaded_files[i].name, to_raises), "next file")

\* st.success("Data processing complete!") and the rest of the script
EndOfScript ==
    /\ pc = "end"
    /\ out' = out \o <<Elem(i, "success", "Data processing complete!", <<>>)>>
    /\ session' = Cull(out)
    /\ clicked' = NoWidget
    /\ pc' = "idle"
    /\ UNCHANGED <<uploaded_files, i, df, ids, fs, prev, cur, arg, res>>

\* the values one interaction with the rendered widget w can give it
NewValues(w) ==
    IF w.s \in {"button", "download_button"} THEN {<<"True">>}
    ELSE IF w.s = "checkbox"
         THEN {IF w.v.value = <<"True">> THEN <<"False">> ELSE <<"True">>}
    ELSE IF w.s \in {"selectbox", "radio"}
         THEN {<<o>> : o \in Range(w.v.options) \ Range(w.v.value)}
    ELSE {SelectSeq(w.v.value, LAMBDA c : c # o) : o \in Range(w.v.value)}
         \cup {Append(w.v.value, o) : o \in Range(w.v.options) \ Range(w.v.value)}

\* the user acts on a widget of the page: the framework stores the new value
\* (a button is true for one pass only) and re-runs the script
UserEvent ==
    /\ pc = "idle"
    /\ uploaded_files # <<>>
    /\ \E k \in 1..Len(out) :
          /\ out[k].e = "widget"
          /\ \E val \in NewValues(out[k]) :
                IF out[k].s \in {"button", "download_button"}
                THEN /\ clicked' = out[k].v.id
                     /\ UNCHANGED session
                ELSE /\ clicked' = NoWidget
                     /\ session' = [w \in (DOMAIN session) \cup {out[k].v.id} |->
                                      IF w = out[k].v.id THEN val ELSE session[w]]
    /\ pc' = "read"
    /\ i' = 1
    /\ df' = NoTable
    /\ ids' = {}
    /\ out' = <<>>
    /\ prev' = IF cur.op = "dedup" THEN cur ELSE NoOp
    /\ cur' = NoOp
    /\ UNCHANGED <<uploaded_files, fs, arg, res>>

Init ==
    /\ uploaded_files \in Batches
    /\ session = EmptySession
    /\ clicked = NoWidget
    /\ pc = "read"
    /\ i = 1
    /\ df = NoTable
    /\ ids = {}
    /\ out = <<>>
    /\ fs = {}
    /\ prev = NoOp
    /\ cur = NoOp
    /\ arg = NoTable
    /\ res = NoOp

Next ==
    \/ ReadFile
    \/ DataCleaning
    \/ ColumnSelection
    \/ DataVisualization
    \/ EDAReport
    \/ FileConversion
    \/ EndOfScript
    \/ UserEvent

Spec == Init /\ [][Next]_vars

(***************************************************************************)
(* The Visualizer on its own: every small projected table, chart kind and  *)
(* stored axis choice, at the point where the script reaches the section   *)
(***************************************************************************)
MaxVizRows == 1

VizName == <<"a", ".", "c", "s", "v">>

Orderings(names) ==
    {cols \in SeqsUpTo(Range(names), Len(names)) :
        \A m, n \in 1..Len(cols) : m # n => cols[m] # cols[n]}

VizTables ==
    {project(t, cols) : <<t, cols>> \in
        {<<t, cols>> \in Tables \X SeqsUpTo({"x", "y", "s"}, 2) :
            Len(t.rows) <= MaxVizRows /\ cols \in Orderings(column_names(t))}}

x_axis_id(kind, name) ==
    IF kind = "Bar Chart" THEN bar_x_id(name)
    ELSE IF kind = "Scatter Plot" THEN scatter_x_id(name)
    ELSE IF kind = "Line Chart" THEN line_x_id(name)
    ELSE hist_x_id(name)

y_axis_id(kind, name) ==
    IF kind = "Bar Chart" THEN bar_y_id(name)
    ELSE IF kind = "Scatter Plot" THEN scatter_y_id(name)
    ELSE line_y_id(name)

\* the stored choices: the chart kind and, possibly, an axis column chosen
\* earlier (which the table may have lost since)
VizSession(kind, xs, ys) ==
    LET entries == {<<viz_type_id(VizName), <<kind>>>>}
                   \cup (IF xs = "" THEN {} ELSE {<<x_axis_id(kind, VizName), <<xs>>>>})
                   \cup (IF ys = "" \/ kind = "Histogram" THEN {}
                         ELSE {<<y_axis_id(kind, VizName), <<ys>>>>})
    IN  [w \in {e[1] : e \in entries} |-> (CHOOSE e \in entries : e[1] = w)[2]]

InitViz ==
    /\ \E t \in VizTables :
          /\ uploaded_files = <<[name |-> VizName, ok |-> TRUE, table |-> t]>>
          /\ df = t
          /\ arg = t
    /\ \E kind \in Range(ChartKinds), xs \in {"", "x", "y"}, ys \in {"", "x", "y"} :
          session = VizSession(kind, xs, ys)
    /\ clicked = NoWidget
    /\ pc = "viz"
    /\ i = 1
    /\ ids = {}
    /\ out = <<>>
    /\ fs = {}
    /\ prev = NoOp
    /\ cur = NoOp
    /\ res = NoOp

NextViz == DataVisualization

SpecViz == InitViz /\ [][NextViz]_vars

(***************************************************************************)
(* The Cleaner's routines on their own                                     *)
(***************************************************************************)
InitClean ==
    /\ AppAtRest
    /\ arg \in Tables
    /\ res = [op |-> "none", df |-> arg, n |-> 0]

CleanDeduplicate ==
    /\ arg' = res.df
    /\ res' = [op |-> "dedup", df |-> Deduplicate(res.df).df, n |-> Deduplicate(res.df).n]
    /\ UNCHANGED appVars

CleanImpute ==
    /\ arg' = res.df
    /\ res' = [op |-> "impute", df |-> Impute(res.df).df, n |-> Impute(res.df).n]
    /\ UNCHANGED appVars

NextClean == CleanDeduplicate \/ CleanImpute

SpecClean == InitClean /\ [][NextClean]_vars

(***************************************************************************)
(* The Exporter's naming on its own                                        *)
(***************************************************************************)
InitName ==
    /\ AppAtRest
    /\ arg \in [name : UploadNames, conversion_type : {"CSV", "Excel"}]
    /\ res = [op |-> "none", file_name |-> <<>>, mime_type |-> ""]

ConvertName ==
    /\ res.op = "none"
    /\ res' = [op |-> "convert",
               file_name |-> converted_file_name(arg.name, file_ext_of(arg.name),
                                                 arg.conversion_type),
               mime_type |-> converted_mime_type(arg.conversion_type)]
    /\ UNCHANGED <<arg, appVars>>

NextName == ConvertName

SpecName == InitName /\ [][NextName]_vars

(***************************************************************************)
(* C4  File Conversion names the download after the source file            *)
(***************************************************************************)
name_root(name) == SubSeq(name, 1, Len(name) - Len(splitext_ext(name)))

\* C4: for every source name with a supported extension and every target
\* format, the download is named as the source with only its final extension
\* replaced by the target extension, and carries the target's MIME type.
C4_ExportNameSwapsExtension ==
    res.op = "convert" =>
        /\ res.file_name = name_root(arg.name)
               \o (IF arg.conversion_type = "CSV" THEN dot_csv ELSE dot_xlsx)
        /\ res.mime_type = (IF arg.conversion_type = "CSV" THEN mime_csv ELSE mime_xlsx)

(***************************************************************************)
(* C7  Deduplicate                                                         *)
(***************************************************************************)
first_occurrences(rows) ==
    {k \in 1..Len(rows) : \A j \in 1..(k-1) : rows[j] # rows[k]}

\* the rows at the positions of `keep`, in their original order
rows_at(rows, keep) ==
    [n \in 1..Cardinality(keep) |->
        rows[CHOOSE k \in keep : Cardinality({j \in keep : j < k}) = n - 1]]

\* C7: Deduplicate keeps the first occurrence of every distinct row in the
\* original order and drops the later duplicates; the result is no longer
\* than the input and has no two equal rows; the reported count is
\* rows_before - rows_after; deduplicating the result changes nothing and
\* reports 0.
C7_Deduplicate ==
    res.op = "dedup" =>
        /\ res.df.rows = rows_at(arg.rows, first_occurrences(arg.rows))
        /\ res.df.columns = arg.columns
        /\ Len(res.df.rows) <= Len(arg.rows)
        /\ \A a, b \in 1..Len(res.df.rows) : a # b => res.df.rows[a] # res.df.rows[b]
        /\ res.n = Len(arg.rows) - Len(res.df.rows)
        /\ Deduplicate(res.df) = [df |-> res.df, n |-> 0]

C7_Witness ==
    /\ res.op = "dedup"
    /\ res.n >= 1
    /\ Len(res.df.rows) >= 2

(***************************************************************************)
(* C8  Impute                                                              *)
(***************************************************************************)
missing_in(t, c) == Cardinality({r \in 1..Len(t.rows) : isnull(t.rows[r][c])})

changed_cells(s, t) ==
    {<<r, c>> \in (1..Len(s.rows)) \X (1..Len(s.columns)) : s.rows[r][c] # t.rows[r][c]}

\* C8: after Impute every numeric column that had a non-missing value has no
\* missing value, an entirely missing numeric column keeps its missing
\* values, non-numeric columns and previously present cells are unchanged,
\* and the reported count is the number of cells changed.
C8_Impute ==
    res.op = "impute" =>
        /\ res.df.columns = arg.columns
        /\ Len(res.df.rows) = Len(arg.rows)
        /\ \A c \in 1..Len(arg.columns) :
              /\ (arg.columns[c].dtype = "number" /\ missing_in(arg, c) < Len(arg.rows))
                    => missing_in(res.df, c) = 0
              /\ (arg.columns[c].dtype = "number" /\ missing_in(arg, c) = Len(arg.rows))
                    => missing_in(res.df, c) = Len(arg.rows)
              /\ arg.columns[c].dtype # "number" => Column(res.df, c) = Column(arg, c)
              /\ \A r \in 1..Len(arg.rows) :
                    ~isnull(arg.rows[r][c]) => res.df.rows[r][c] = arg.rows[r][c]
        /\ res.n = Cardinality(changed_cells(arg, res.df))
        /\ res.n = isnull_sum(arg) - isnull_sum(res.df)

C8_Witness ==
    /\ res.op = "impute"
    /\ res.n >= 1
    /\ \E c \in 1..Len(arg.columns) :
          arg.columns[c].dtype = "number" /\ Len(arg.rows) >= 1
          /\ missing_in(arg, c) = Len(arg.rows)
    /\ \E c \in 1..Len(arg.columns) :
          arg.columns[c].dtype = "number" /\ 0 < missing_in(arg, c)
          /\ missing_in(arg, c) < Len(arg.rows)


(***************************************************************************)
(* C1  A file the Loader rejects is reported and skipped                   *)
(***************************************************************************)
LoaderFails(file) ==
    lower(splitext_ext(file.name)) \notin {dot_csv, dot_xlsx} \/ ~file.ok

\* Read File has run for file f in the current pass
ReadRan(f) == f < i \/ (f = i /\ pc # "read")

ElementsOf(f) == {k \in 1..Len(out) : out[k].f = f}

PassComplete ==
    out # <<>> /\ out[Len(out)].s = "Data processing complete!"

NoDuplicateRows(t) ==
    \A a, b \in 1..Len(t.rows) : a # b => t.rows[a] # t.rows[b]

NoMissingNumeric(t) == isnull_sum(t) = 0

ShownTable(e) ==
    IF e.e = "html" THEN e.v ELSE IF e.e = "chart" THEN e.v.df ELSE e.v.data

\* C2: once the user has clicked Deduplicate on a file, the operations of the
\* next interaction on that file work on the deduplicated table: after Impute
\* the table has neither duplicate rows nor missing numeric values, and a
\* chart, report or download shows the deduplicated table (its selected
\* columns).
C2_CleaningPersists ==
    prev.op = "dedup" =>
        /\ (cur.op = "impute" /\ cur.f = prev.f) =>
              NoDuplicateRows(cur.df) /\ NoMissingNumeric(cur.df)
        /\ \A k \in 1..Len(out) :
              (out[k].f = prev.f /\ cur.op = "none"
               /\ (out[k].e \in {"html", "chart"} \/ out[k].s = "download_button")) =>
                 ShownTable(out[k]) = project(prev.df, column_names(ShownTable(out[k])))

(***************************************************************************)
(* C3  The transient report file                                           *)
(***************************************************************************)
ReportInvoked(f) ==
    \E k \in 1..Len(out) :
        /\ out[k].f = f
        /\ out[k].e = "html" \/ (out[k].e = "error" /\ out[k].s = "Error generating EDA report")

\* C3: once Generate EDA Report has run for a file, with or without a failure
\* at any of its steps, "<file name>_report.html" is not on disk.
C3_ReportFileRemoved ==
    \A f \in 1..Len(uploaded_files) :
        ReportInvoked(f) => report_path(uploaded_files[f].name) \notin fs

(***************************************************************************)
(* C5  No failure ends the pass                                            *)
(***************************************************************************)
\* C5: every failure is caught where it happens and shown as a message: no
\* exception escapes a section, and every pass runs through all the files of
\* the batch to the end of the script.
C5_FailuresAreCaught ==
    /\ \A k \in 1..Len(out) : out[k].e # "exception"
    /\ pc = "idle" => PassComplete

(***************************************************************************)
(* C6  Controls are keyed per file                                         *)
(***************************************************************************)
\* C6: in a batch of files with distinct names, each control of one file has
\* an identity different from the same control of every other file, and no
\* control is refused as a duplicate of another file's.
C6_ControlsKeyedPerFile ==
    /\ \A a, b \in 1..Len(uploaded_files) :
          (a # b /\ uploaded_files[a].name # uploaded_files[b].name) =>
             \A c \in 1..Len(controls(uploaded_files[a].name)) :
                 controls(uploaded_files[a].name)[c] # controls(uploaded_files[b].name)[c]
    /\ \A k \in 1..Len(out) : out[k].s # "DuplicateWidgetID"

(***************************************************************************)
(* C9  Visualizer preconditions                                            *)
(***************************************************************************)
RequiredNumeric(kind) == IF kind = "Histogram" THEN 1 ELSE 2

Rendered(what) == {k \in 1..Len(out) : out[k].e = what}

ChosenKind == selectbox(viz_type_id(uploaded_files[1].name), ChartKinds)

\* C9: the Visualizer renders a chart only when the table has the numeric
\* columns the chart kind requires (two for Bar, Scatter and Line, one for
\* Histogram), of the chosen kind and with axes among the table's numeric
\* columns; otherwise it shows a warning, no chart and no exception; the table
\* is the same after the section as before it.
C9_VisualizerPreconditions ==
    pc = "report" =>
        /\ df = arg
        /\ Rendered("exception") = {}
        /\ \A k \in Rendered("chart") :
              /\ Len(numeric_cols(arg)) >= RequiredNumeric(out[k].s)
              /\ out[k].s = ChosenKind
              /\ out[k].v.x \in Range(numeric_cols(arg))
              /\ out[k].v.y \in Range(numeric_cols(arg))
              /\ out[k].v.df = arg
        /\ Len(numeric_cols(arg)) < RequiredNumeric(ChosenKind) =>
              /\ Cardinality(Rendered("warning")) = 1
              /\ Rendered("chart") = {}
              /\ Rendered("error") = {}
        /\ Len(numeric_cols(arg)) >= RequiredNumeric(ChosenKind) =>
              /\ Rendered("warning") = {}
              /\ Cardinality(Rendered("chart") \cup Rendered("error")) = 1

C9_Witness ==
    /\ pc = "report"
    /\ ChosenKind = "Bar Chart"
    /\ Len(numeric_cols(arg)) = 1
    /\ Len(arg.columns) = 2
    /\ \E k \in Rendered("warning") :
          out[k].s = "Bar Chart requires at least two numeric columns"

(***************************************************************************)
(* C10  Scale applies the chosen strategy                                  *)
(***************************************************************************)
\* C10: a pass in which the selector of a file holds StandardScaler, the
\* user's choice, scales that file's numeric columns with StandardScaler.
C10_ChosenScalerApplied ==
    \A f \in 1..Len(uploaded_files) :
        (/\ pc = "end"
         /\ scaler_id(uploaded_files[f].name) \in DOMAIN session
         /\ session[scaler_id(uploaded_files[f].name)] = <<"StandardScaler">>)
        => (cur.op = "scale" /\ cur.f = f /\ cur.how = "StandardScaler")

====
